---- MODULE Spec2Model ----
(***************************************************************************)
(* SalonPro-backend: the occasion-based reminder engine                    *)
(* (services/reminder_service.go) over the relational store written by the *)
(* HTTP controllers.                                                       *)
(*                                                                         *)
(* The specifications share the variables:                                 *)
(*   Spec           the cycles of SendDailyReminders, started by           *)
(*                  StartScheduler and by GET /test-reminder, step by      *)
(*                  step and concurrently, over the days;                  *)
(*   SpecScheduler  the one cycle StartScheduler runs;                     *)
(*   SpecTenancy    that cycle and the controllers that create tenants,    *)
(*                  employees and customers;                               *)
(*   SpecCustomers  that cycle and the controllers that update and delete  *)
(*                  customers;                                             *)
(*   SpecTemplates  registration and the reminder-template controllers,    *)
(*                  serving concurrent requests;                           *)
(*   SpecFinder     getUpcomingCustomers as a function of the current date *)
(*                  and the customer rows, over every date of two years;   *)
(*   SpecLedger     the cycle of StartScheduler and the controllers that   *)
(*                  delete the rows the ledger refers to;                  *)
(*   SpecRender     that cycle for one customer, over templates and names  *)
(*                  built from the placeholder and its parts;              *)
(*   SpecNotifications  two cycles of one salon, while its notification    *)
(*                  preferences are changed.                               *)
(*                                                                         *)
(* Dates are (year, month, day); an occasion date is (month, day), which   *)
(* is all the query's EXTRACT(MONTH ...) and EXTRACT(DAY ...) read.        *)
(* Strings are sequences of characters.                                    *)
(***************************************************************************)
EXTENDS Integers, Sequences, FiniteSets, Bags, TLC

VARIABLES
    now,            \* time.Now(): the current date [y, m, d]
    users,          \* table users (models.User)
    salons,         \* table salons (models.Salon)
    customers,      \* table customers (models.Customer)
    templates,      \* table reminder_templates (models.ReminderTemplate)
    reminderLogs,   \* table reminder_logs (models.ReminderLog): a bag of rows
    gateway,        \* the calls of s.client.Api.CreateMessage made so far: a bag
    run,            \* per trigger: the locals of its SendDailyReminders call
    trace,          \* history: what each cycle looked up, skipped and processed
    cycles,         \* history: the number of cycles started so far
    faults,         \* history: the number of store and gateway errors, and of
                    \* gateway answers without an identifier, so far
    found,          \* SpecFinder: the rows the last getUpcomingCustomers returned
    starts,         \* history: who started each cycle, and on which day
    inflight        \* the template handlers between their query and their write

vars == <<now, users, salons, customers, templates, reminderLogs, gateway, run,
          trace, cycles, faults, found, starts, inflight>>

\* A NULL date column (birthday, anniversary).
NullDate == [m |-> 0, d |-> 0]

-----------------------------------------------------------------------------
(* Calendar: time.Time's date arithmetic.                                   *)

IsLeap(y) == (y % 4 = 0 /\ y % 100 # 0) \/ y % 400 = 0

DaysIn(y, m) ==
    IF m = 2 THEN (IF IsLeap(y) THEN 29 ELSE 28)
    ELSE IF m \in {4, 6, 9, 11} THEN 30 ELSE 31

\* time.Date's normalisation of a day past the end of its month.
RECURSIVE NormalizeDate(_, _, _)
NormalizeDate(y, m, d) ==
    IF d <= DaysIn(y, m) THEN [y |-> y, m |-> m, d |-> d]
    ELSE IF m = 12 THEN NormalizeDate(y + 1, 1, d - DaysIn(y, m))
    ELSE NormalizeDate(y, m + 1, d - DaysIn(y, m))

\* t.AddDate(0, 0, days)
AddDate(t, days) == NormalizeDate(t.y, t.m, t.d + days)

\* The look-ahead of getUpcomingCustomers: now.AddDate(0, 0, 7).
WindowDays == 7

-----------------------------------------------------------------------------
(* Strings.                                                                 *)

HasPrefix(s, prefix) ==
    /\ Len(s) >= Len(prefix)
    /\ SubSeq(s, 1, Len(prefix)) = prefix

\* strings.ReplaceAll for a non-empty old: left to right, non-overlapping.
RECURSIVE ReplaceAll(_, _, _)
ReplaceAll(s, old, new) ==
    IF Len(s) < Len(old) THEN s
    ELSE IF SubSeq(s, 1, Len(old)) = old
         THEN new \o ReplaceAll(SubSeq(s, Len(old) + 1, Len(s)), old, new)
         ELSE <<Head(s)>> \o ReplaceAll(Tail(s), old, new)

\* The placeholder "[CustomerName]".
Placeholder == <<"[", "CustomerName", "]">>

-----------------------------------------------------------------------------
(* Occasion Finder.                                                         *)

EventTypes == <<"birthday", "anniversary">>

\* The column the query reads for an event type.
OccasionOf(c, eventType) ==
    IF eventType = "birthday" THEN c.birthday ELSE c.anniversary

\* x BETWEEN lo AND hi
Between(x, lo, hi) == lo <= x /\ x <= hi

\* Faulty variant: the query without its salon_id = ?.
getUpcomingCustomersOfAll(tbl, salonID, eventType, t) ==
    LET startDate == AddDate(t, WindowDays)
    IN  { c \in tbl :
            /\ c.isActive
            /\ OccasionOf(c, eventType) # NullDate
            /\ OccasionOf(c, eventType).m = startDate.m
            /\ Between(OccasionOf(c, eventType).d, t.d, startDate.d) }

\* The rows of tbl the raw query of getUpcomingCustomers selects at date t.
\* The query is raw SQL: it does not add gorm's deleted_at IS NULL.
getUpcomingCustomers(tbl, salonID, eventType, t) ==
    LET startDate == AddDate(t, WindowDays)
    IN  { c \in tbl :
            /\ c.salonID = salonID
            /\ c.isActive
            /\ OccasionOf(c, eventType) # NullDate
            /\ OccasionOf(c, eventType).m = startDate.m
            /\ Between(OccasionOf(c, eventType).d, t.d, startDate.d) }

-----------------------------------------------------------------------------
(* The store.                                                               *)

\* uuid.New(): an identifier no row holds (the n-th smallest one, n >= 1).
UsedIDs ==
    {r.id : r \in users} \cup {r.id : r \in salons}
        \cup {r.id : r \in customers} \cup {r.id : r \in templates}

RECURSIVE NewUUID(_, _)
NewUUID(used, n) ==
    LET least == CHOOSE k \in 1..(Cardinality(used) + 1) : k \notin used
    IN  IF n = 1 THEN least ELSE NewUUID(used \cup {least}, n - 1)

\* The rows of a result set as a slice, in primary-key order.
RECURSIVE Rows(_)
Rows(set) ==
    IF set = {} THEN <<>>
    ELSE LET first == CHOOSE r \in set : \A q \in set : r.id <= q.id
         IN  <<first>> \o Rows(set \ {first})

\* db.Find(&salons, "is_active = ?", true): gorm adds deleted_at IS NULL.
ActiveUsers == {u \in users : u.isActive /\ ~u.deleted}

\* db.Where("salon_id = ? AND type = ? AND is_active = true").First(&template):
\* the matching rows; First takes the one with the least primary key.
ActiveTemplates(salonID, eventType) ==
    {t \in templates :
        t.salonID = salonID /\ t.type = eventType /\ t.isActive /\ ~t.deleted}

-----------------------------------------------------------------------------
(* Controllers.                                                             *)

Digits == {"0", "1", "2", "3", "4", "5", "6", "7", "8", "9"}

\* utils.ValidatePhone: ^\+?[1-9]\d{1,14}$
ValidatePhone(phone) ==
    LET body == IF HasPrefix(phone, <<"+">>) THEN Tail(phone) ELSE phone
    IN  /\ Len(body) >= 2
        /\ Len(body) <= 15
        /\ body[1] \in Digits \ {"0"}
        /\ \A k \in 2..Len(body) : body[k] \in Digits

\* The requests the model sends.
RegisterInputs == {[email |-> "owner@new", phone |-> "700"]}
EmployeeInputs == {[email |-> "staff@new", phone |-> "701", role |-> "employee"]}
CustomerInputs ==
    {[name |-> <<"A", "n", "n">>, phone |-> <<"+", "4", "4", "7">>,
      birthday |-> [m |-> 6, d |-> 13], anniversary |-> NullDate]}

DefaultMessage(eventType) ==
    IF eventType = "birthday"
    THEN <<"H", "i", " ">> \o Placeholder \o <<"!", "B">>
    ELSE <<"H", "i", " ">> \o Placeholder \o <<"!", "A">>

\* createDefaultReminderTemplates(tx, salonID): the rows it inserts; a type
\* the salon already has a template of is skipped.
createDefaultReminderTemplates(salonID, id1, id2) ==
    { t \in { [id |-> id1, salonID |-> salonID, type |-> "birthday",
               message |-> DefaultMessage("birthday"),
               isActive |-> TRUE, deleted |-> FALSE],
              [id |-> id2, salonID |-> salonID, type |-> "anniversary",
               message |-> DefaultMessage("anniversary"),
               isActive |-> TRUE, deleted |-> FALSE] } :
        ~\E e \in templates :
            e.salonID = salonID /\ e.type = t.type /\ ~e.deleted }

\* POST /auth/register: a salon, its owner and the default templates, in one
\* transaction. The owner's ID and the salon's ID are two uuid.New() values.
Register(input) ==
    /\ ~\E u \in users :
          ~u.deleted /\ (u.email = input.email \/ u.phone = input.phone)
    /\ LET salonID == NewUUID(UsedIDs, 1)
           userID  == NewUUID(UsedIDs, 2)
       IN  /\ salons' = salons \cup {[id |-> salonID]}
           /\ users' = users \cup
                 {[id |-> userID, salonID |-> salonID, email |-> input.email,
                   phone |-> input.phone, role |-> "owner",
                   isActive |-> TRUE, deleted |-> FALSE]}
           /\ templates' = templates \cup
                 createDefaultReminderTemplates(salonID, NewUUID(UsedIDs, 3),
                                                NewUUID(UsedIDs, 4))
    /\ UNCHANGED <<now, customers, reminderLogs, gateway, run, trace, cycles,
                   faults, found, starts, inflight>>

\* The sessions of the deployed controllers: a token carries the user's ID
\* and the user's salon_id (GenerateToken(user.ID, user.SalonID)).
Sessions == {u \in users : u.role # "legacy" /\ ~u.deleted}

\* POST /auth/employees, called with the session of user cur.
AddEmployee(cur, input) ==
    /\ cur \in Sessions
    /\ cur.role \in {"owner", "manager"}
    /\ ~\E u \in users :
          ~u.deleted /\ (u.email = input.email \/ u.phone = input.phone)
    /\ users' = users \cup
          {[id |-> NewUUID(UsedIDs, 1), salonID |-> cur.salonID,
            email |-> input.email, phone |-> input.phone, role |-> input.role,
            isActive |-> TRUE, deleted |-> FALSE]}
    /\ UNCHANGED <<now, salons, customers, templates, reminderLogs, gateway,
                   run, trace, cycles, faults, found, starts, inflight>>

\* DELETE /auth/employees, called with the session of user cur: the employee
\* is deactivated, not deleted.
DeleteEmployee(cur, employee) ==
    /\ cur \in Sessions
    /\ cur.role = "owner"
    /\ employee \in users
    /\ ~employee.deleted
    /\ employee.salonID = cur.salonID
    /\ employee.role # "owner"
    /\ employee.isActive
    /\ users' = (users \ {employee}) \cup {[employee EXCEPT !.isActive = FALSE]}
    /\ UNCHANGED <<now, salons, customers, templates, reminderLogs, gateway,
                   run, trace, cycles, faults, found, starts, inflight>>

\* POST /api/customers, called with the session of user cur. createdAt,
\* updatedAt and deletedAt are gorm.Model's CreatedAt, UpdatedAt and
\* DeletedAt, on the clock of the cycles started so far; deleted says that
\* deleted_at is not NULL.
CreateCustomer(cur, input) ==
    /\ cur \in Sessions
    /\ ValidatePhone(input.phone)
    /\ ~\E c \in customers :
          ~c.deleted /\ c.salonID = cur.salonID /\ c.phone = input.phone
    /\ customers' = customers \cup
          {[id |-> NewUUID(UsedIDs, 1), salonID |-> cur.salonID,
            name |-> input.name, phone |-> input.phone,
            birthday |-> input.birthday, anniversary |-> input.anniversary,
            isActive |-> TRUE, deleted |-> FALSE, createdAt |-> cycles,
            updatedAt |-> cycles, deletedAt |-> 0]}
    /\ UNCHANGED <<now, users, salons, templates, reminderLogs, gateway, run,
                   trace, cycles, faults, found, starts, inflight>>

\* The sessions of the earlier deployment: its Login put the user's ID into
\* the token as the salon ID, and these users' rows hold it as salon_id.
LegacySessions == {u \in users : u.role = "legacy" /\ ~u.deleted}

\* The bodies of PUT /api/customers/:id the model sends.
CustomerUpdates == {[isActive |-> FALSE]}

\* PUT /api/customers/:id, called with the session of user cur: the row is
\* read (gorm leaves out the deleted rows), changed and saved.
UpdateCustomer(cur, customer, input) ==
    /\ cur \in Sessions \cup LegacySessions
    /\ customer \in customers
    /\ ~customer.deleted
    /\ customer.salonID = cur.salonID
    /\ customers' = (customers \ {customer}) \cup
          {[customer EXCEPT !.isActive = input.isActive, !.updatedAt = cycles]}
    /\ UNCHANGED <<now, users, salons, templates, reminderLogs, gateway, run,
                   trace, cycles, faults, found, starts, inflight>>

\* DELETE /api/customers/:id, called with the session of user cur: gorm's
\* Delete on a model with DeletedAt sets deleted_at and leaves the row, and
\* its is_active, as they are.
DeleteCustomer(cur, customer) ==
    /\ cur \in Sessions \cup LegacySessions
    /\ customer \in customers
    /\ ~customer.deleted
    /\ customer.salonID = cur.salonID
    /\ customers' = (customers \ {customer}) \cup
          {[customer EXCEPT !.deleted = TRUE, !.deletedAt = cycles]}
    /\ UNCHANGED <<now, users, salons, templates, reminderLogs, gateway, run,
                   trace, cycles, faults, found, starts, inflight>>

-----------------------------------------------------------------------------
(* The reminder-template controllers. A handler that queries and then       *)
(* writes is two steps: the query, which leaves the write in inflight, and  *)
(* Commit, the write. Requests are served concurrently.                     *)

\* The handlers between query and write, and the template rows, at most.
MaxInflight == 2
MaxTemplates == 4

\* The bodies of POST /api/reminder-templates the model sends.
TemplateInputs ==
    {[type |-> type, message |-> DefaultMessage(type)] :
        type \in {"birthday", "anniversary"}}

\* The bodies of PUT /api/reminder-templates/:id: "" is a field the body
\* leaves out.
TemplateUpdates ==
    {[type |-> "", isActive |-> "true"], [type |-> "", isActive |-> "false"],
     [type |-> "anniversary", isActive |-> ""]}

\* The bodies of PUT /api/reminder-settings: the type is required.
SettingUpdates ==
    {[type |-> "birthday", isActive |-> "false"],
     [type |-> "anniversary", isActive |-> "true"]}

\* db.Where("salon_id = ? AND type = ?").First(...): the rows that match;
\* gorm leaves out the deleted ones.
TemplatesOf(salonID, type) ==
    {t \in templates : t.salonID = salonID /\ t.type = type /\ ~t.deleted}

\* The row a handler saves: the row it read, with the fields of the body.
Patched(template, input) ==
    [template EXCEPT
        !.type = IF input.type = "" THEN @ ELSE input.type,
        !.isActive = IF input.isActive = "" THEN @ ELSE input.isActive = "true"]

\* POST /api/reminder-templates up to its insert: 409 if the salon has a
\* template of the type; else the row is built, with a uuid.New() ID.
CreateReminderTemplate(cur, input) ==
    /\ cur \in Sessions \cup LegacySessions
    /\ Cardinality(inflight) < MaxInflight
    /\ Cardinality(templates) + Cardinality(inflight) < MaxTemplates
    /\ TemplatesOf(cur.salonID, input.type) = {}
    /\ inflight' = inflight \cup
          {[op |-> "create",
            row |-> [id |-> NewUUID(UsedIDs \cup {q.row.id : q \in inflight}, 1),
                     salonID |-> cur.salonID, type |-> input.type,
                     message |-> input.message, isActive |-> TRUE,
                     deleted |-> FALSE]]}
    /\ UNCHANGED <<now, users, salons, customers, templates, reminderLogs,
                   gateway, run, trace, cycles, faults, found, starts>>

\* PUT /api/reminder-templates/:id up to its Save: the row is read; a change
\* of type is refused with 409 if the salon has a template of the new type.
UpdateReminderTemplate(cur, template, input) ==
    /\ cur \in Sessions \cup LegacySessions
    /\ Cardinality(inflight) < MaxInflight
    /\ template \in templates
    /\ ~template.deleted
    /\ template.salonID = cur.salonID
    /\ (input.type # "" /\ input.type # template.type) =>
          TemplatesOf(cur.salonID, input.type) = {}
    /\ inflight' = inflight \cup
          {[op |-> "save", row |-> Patched(template, input)]}
    /\ UNCHANGED <<now, users, salons, customers, templates, reminderLogs,
                   gateway, run, trace, cycles, faults, found, starts>>

\* PUT /api/reminder-settings up to its Save: the salon's template of the
\* type is read (First: the one with the least primary key) and changed.
UpdateReminderSetting(cur, input) ==
    /\ cur \in Sessions \cup LegacySessions
    /\ Cardinality(inflight) < MaxInflight
    /\ TemplatesOf(cur.salonID, input.type) # {}
    /\ inflight' = inflight \cup
          {[op |-> "save",
            row |-> Patched(Rows(TemplatesOf(cur.salonID, input.type))[1],
                            [input EXCEPT !.type = ""])]}
    /\ UNCHANGED <<now, users, salons, customers, templates, reminderLogs,
                   gateway, run, trace, cycles, faults, found, starts>>

\* DELETE /api/reminder-templates/:id: one statement, a soft delete.
DeleteReminderTemplate(cur, template) ==
    /\ cur \in Sessions \cup LegacySessions
    /\ template \in templates
    /\ ~template.deleted
    /\ template.salonID = cur.salonID
    /\ templates' = (templates \ {template}) \cup
          {[template EXCEPT !.deleted = TRUE]}
    /\ UNCHANGED <<now, users, salons, customers, reminderLogs, gateway, run,
                   trace, cycles, faults, found, starts, inflight>>

\* The write of a handler in flight. db.Create inserts the row. db.Save
\* updates every column of the row with the primary key, if it is not
\* deleted; if it is, Save updates nothing or, in the gorm versions that
\* fall back to an upsert, writes the row back as it was read.
Commit(q) ==
    /\ q \in inflight
    /\ inflight' = inflight \ {q}
    /\ LET stored == {t \in templates : t.id = q.row.id}
       IN  \/ /\ q.op = "create"
              /\ templates' = templates \cup {q.row}
           \/ /\ q.op = "save"
              /\ \E t \in stored : ~t.deleted
              /\ templates' = (templates \ stored) \cup {q.row}
           \/ /\ q.op = "save"
              /\ \A t \in stored : t.deleted
              /\ \/ UNCHANGED templates
                 \/ templates' = (templates \ stored) \cup {q.row}
    /\ UNCHANGED <<now, users, salons, customers, reminderLogs, gateway, run,
                   trace, cycles, faults, found, starts>>

\* The bodies of PUT /auth/profile/update-notifications the model sends.
NotificationInputs ==
    {[birthdayReminders |-> FALSE, anniversaryReminders |-> FALSE,
      whatsAppNotifications |-> TRUE, smsNotifications |-> TRUE],
     [birthdayReminders |-> FALSE, anniversaryReminders |-> TRUE,
      whatsAppNotifications |-> FALSE, smsNotifications |-> FALSE]}

\* PUT /auth/profile/update-notifications, called with the session of user
\* cur: the four columns are written in the users row whose id is the
\* token's salonId.
UpdateNotifications(cur, input) ==
    /\ cur \in Sessions \cup LegacySessions
    /\ users' =
          {IF u.id = cur.salonID /\ ~u.deleted
           THEN [u EXCEPT
                   !.birthdayReminders = input.birthdayReminders,
                   !.anniversaryReminders = input.anniversaryReminders,
                   !.whatsAppNotifications = input.whatsAppNotifications,
                   !.smsNotifications = input.smsNotifications]
           ELSE u : u \in users}
    /\ users' # users
    /\ UNCHANGED <<now, salons, customers, templates, reminderLogs, gateway,
                   run, trace, cycles, faults, found, starts, inflight>>

-----------------------------------------------------------------------------
(* The reminder engine: services/reminder_service.go.                       *)

\* What starts a cycle: StartScheduler, and the handler of GET /test-reminder.
Triggers == {"scheduler", "request"}

\* The cycles one behaviour starts, and the errors (store, gateway) and
\* answers without an identifier it meets.
MaxCycles == 2
MaxFaults == 2

NoTemplate ==
    [id |-> 0, salonID |-> 0, type |-> "", message |-> <<>>,
     isActive |-> FALSE, deleted |-> FALSE]

\* The locals of a SendDailyReminders call that has not started.
Idle ==
    [pc |-> "idle", id |-> 0, salons |-> <<>>, i |-> 0, eventType |-> "",
     customers |-> <<>>, j |-> 0, template |-> NoTemplate, message |-> <<>>,
     channel |-> "", to |-> <<>>, status |-> "", errorMsg |-> ""]

\* The salonID ProcessSalonReminders is called with: salon.ID of the
\* models.User row the loop of SendDailyReminders is at.
SalonIDOf(r) == r.salons[r.i].id

\* A history entry: cycle r.id, at row r.i of its salons, handling r.eventType.
Event(kind, r, customerID, ok, rows) ==
    [kind |-> kind, run |-> r.id, idx |-> r.i, salonID |-> SalonIDOf(r),
     type |-> r.eventType, customerID |-> customerID, ok |-> ok, rows |-> rows]

\* ProcessSalonReminders and the loop of SendDailyReminders: what follows
\* the handling of one event type of one salon.
NextUnit(r) ==
    IF r.eventType = "birthday"
    THEN [r EXCEPT !.pc = "lookup", !.eventType = "anniversary",
                   !.customers = <<>>, !.j = 0]
    ELSE IF r.i < Len(r.salons)
    THEN [r EXCEPT !.pc = "lookup", !.i = r.i + 1, !.eventType = "birthday",
                   !.customers = <<>>, !.j = 0]
    ELSE [r EXCEPT !.pc = "done"]

\* Faulty variant: an error of getUpcomingCustomers ends the cycle.
AbortOnLookupError(r) == [r EXCEPT !.pc = "done"]

\* ProcessSalonReminders, err != nil from getUpcomingCustomers: logged.
OnLookupError(r) == NextUnit(r)

\* Faulty variant: an occasion type the salon has switched off in its
\* notification preferences is not sent.
SkipWhenSwitchedOff(r, template) ==
    IF \/ r.customers = <<>>
       \/ r.eventType = "birthday" /\ ~r.salons[r.i].birthdayReminders
       \/ r.eventType = "anniversary" /\ ~r.salons[r.i].anniversaryReminders
    THEN NextUnit(r)
    ELSE [r EXCEPT !.pc = "render", !.template = template, !.j = 1]

\* Faulty variant: the ledger row of a customer is written before the
\* customer's message is rendered and sent.
LogBeforeSending(r, template) ==
    IF r.customers = <<>> THEN NextUnit(r)
    ELSE [r EXCEPT !.pc = "log", !.template = template, !.j = 1]

\* sendReminders, the template found: the loop over the customers.
OnTemplateFound(r, template) ==
    IF r.customers = <<>> THEN NextUnit(r)
    ELSE [r EXCEPT !.pc = "render", !.template = template, !.j = 1]

\* Faulty variant: without a template the loop over the customers runs all the same.
SendWithoutTemplate(r) == OnTemplateFound(r, NoTemplate)

\* sendReminders, no active template (or the query failed): logged, return.
OnTemplateMissing(r) == NextUnit(r)

\* Faulty variant: after one customer the loop over the customers ends.
SkipRest(r) == NextUnit(r)

\* Faulty variant: a customer whose send failed is sent to again.
RetryFailedSend(r) ==
    IF r.status = "failed" THEN [r EXCEPT !.pc = "render"]
    ELSE IF r.j < Len(r.customers) THEN [r EXCEPT !.pc = "render", !.j = r.j + 1]
    ELSE NextUnit(r)

\* Faulty variant: the customer just handled is handed to the gateway again.
ResendCustomer(r) == [r EXCEPT !.pc = "send"]

\* sendReminders, the end of one iteration of the loop over the customers.
NextCustomer(r) ==
    IF r.j < Len(r.customers) THEN [r EXCEPT !.pc = "render", !.j = r.j + 1]
    ELSE NextUnit(r)

\* strings.Replace(s, old, new, 1): the first occurrence only.
RECURSIVE ReplaceFirst(_, _, _)
ReplaceFirst(s, old, new) ==
    IF Len(s) < Len(old) THEN s
    ELSE IF SubSeq(s, 1, Len(old)) = old
         THEN new \o SubSeq(s, Len(old) + 1, Len(s))
         ELSE <<Head(s)>> \o ReplaceFirst(Tail(s), old, new)

\* Faulty variant: only the first placeholder is replaced.
RenderOnce(template, customer) ==
    ReplaceFirst(template.message, Placeholder, customer.name)

\* The rendered message.
Render(template, customer) ==
    ReplaceAll(template.message, Placeholder, customer.name)

\* Faulty variant: every customer is written to on WhatsApp.
AlwaysWhatsapp(customer) ==
    [channel |-> "whatsapp", to |-> <<"whatsapp:">> \o customer.phone]

\* The channel and the destination.
SelectChannel(customer) ==
    IF HasPrefix(customer.phone, <<"+">>)
    THEN [channel |-> "whatsapp", to |-> <<"whatsapp:">> \o customer.phone]
    ELSE [channel |-> "sms", to |-> customer.phone]

\* The sender identity per channel.
FromOf(channel) ==
    IF channel = "whatsapp" THEN <<"whatsapp:", "TWILIO_WHATSAPP_NUMBER">>
    ELSE <<"TWILIO_PHONE_NUMBER">>

\* What CreateMessage returns: ok says that err is nil, sid that resp.Sid is
\* not nil.
Accepted == [ok |-> TRUE, sid |-> TRUE]
AcceptedWithoutSid == [ok |-> TRUE, sid |-> FALSE]
Refused == [ok |-> FALSE, sid |-> FALSE]

\* Faulty variant: the gateway's error is dropped.
AlwaysSent(r, resp) == [r EXCEPT !.status = "sent", !.errorMsg = ""]

\* Faulty variant: an answer without an identifier counts as a failure.
FailWithoutSid(r, resp) ==
    IF resp.ok /\ resp.sid THEN [r EXCEPT !.status = "sent", !.errorMsg = ""]
    ELSE [r EXCEPT !.status = "failed", !.errorMsg = "twilio: request failed"]

\* The status and the error text sendReminders derives from what
\* CreateMessage returns: resp.Sid decides only which line is logged.
Outcome(r, resp) ==
    IF resp.ok THEN [r EXCEPT !.status = "sent", !.errorMsg = ""]
    ELSE [r EXCEPT !.status = "failed", !.errorMsg = "twilio: request failed"]

\* Faulty variant: the row holds the template's message as stored.
ReminderLogOfTemplate(r) ==
    [salonID |-> SalonIDOf(r), customerID |-> r.customers[r.j].id,
     templateID |-> r.template.id, type |-> r.eventType,
     message |-> r.template.message, status |-> r.status,
     errorMessage |-> r.errorMsg, channel |-> r.channel, sentAt |-> now,
     run |-> r.id]

\* The models.ReminderLog row sendReminders builds. The primary key, a
\* uuid.New() of BeforeCreate that nothing reads, is left out; run is
\* history: the cycle that wrote the row.
ReminderLog(r) ==
    [salonID |-> SalonIDOf(r), customerID |-> r.customers[r.j].id,
     templateID |-> r.template.id, type |-> r.eventType,
     message |-> r.message, status |-> r.status,
     errorMessage |-> r.errorMsg, channel |-> r.channel, sentAt |-> now,
     run |-> r.id]

\* Faulty variant: the row replaces the rows of the ledger.
Overwrite(logs, entry) == SetToBag({entry})

\* Faulty variant: the row is inserted twice.
RecordTwice(logs, entry) == logs (+) SetToBag({entry}) (+) SetToBag({entry})

\* s.db.Create(&reminderLog), succeeding.
Record(logs, entry) == logs (+) SetToBag({entry})

\* SendDailyReminders: the salons are fetched; on an error the cycle returns.
SendDailyReminders(t) ==
    /\ cycles < MaxCycles
    /\ \/ run[t].pc = "idle"
       \/ t = "request" /\ run[t].pc = "done"
    /\ cycles' = cycles + 1
    /\ \/ /\ LET rows == Rows(ActiveUsers)
                 r == [Idle EXCEPT !.id = cycles + 1, !.salons = rows]
             IN  run' = [run EXCEPT ![t] =
                    IF rows = <<>> THEN [r EXCEPT !.pc = "done"]
                    ELSE [r EXCEPT !.pc = "lookup", !.i = 1,
                                   !.eventType = "birthday"]]
          /\ UNCHANGED faults
       \/ /\ faults < MaxFaults
          /\ faults' = faults + 1
          /\ run' = [run EXCEPT ![t] =
                        [Idle EXCEPT !.id = cycles + 1, !.pc = "done"]]
    /\ UNCHANGED <<now, users, salons, customers, templates, reminderLogs,
                   gateway, trace, found, inflight>>

\* A history entry: cycle cycles + 1 is started by trigger t on behalf of
\* caller.
CycleStart(t, caller) ==
    [cycle |-> cycles + 1, trigger |-> t, caller |-> caller, day |-> now]

\* StartScheduler: SendDailyReminders is called once, in line; the cron
\* object it creates and starts has no job.
StartScheduler ==
    /\ SendDailyReminders("scheduler")
    /\ starts' = starts \cup {CycleStart("scheduler", "startup")}

\* GET /test-reminder, registered on the router itself, outside the groups
\* that use AuthMiddleware: the handler runs for a request with or without
\* a valid token.
TestReminder(authenticated) ==
    /\ SendDailyReminders("request")
    /\ starts' = starts \cup
          {CycleStart("request",
                      IF authenticated THEN "authenticated" ELSE "anonymous")}

\* ProcessSalonReminders: getUpcomingCustomers for the event type at hand.
Lookup(t) ==
    LET r == run[t]
        rows == getUpcomingCustomers(customers, SalonIDOf(r), r.eventType, now)
    IN  /\ r.pc = "lookup"
        /\ \/ /\ run' = [run EXCEPT ![t] =
                            [r EXCEPT !.pc = "template", !.customers = Rows(rows)]]
              /\ trace' = trace \cup
                    {Event("lookup", r, 0, TRUE,
                           {c.id : c \in rows})}
              /\ UNCHANGED faults
           \/ /\ faults < MaxFaults
              /\ faults' = faults + 1
              /\ run' = [run EXCEPT ![t] = OnLookupError(r)]
              /\ trace' = trace \cup
                    {Event("lookup", r, 0, FALSE, {})}
        /\ UNCHANGED <<now, users, salons, customers, templates, reminderLogs,
                       gateway, cycles, found, starts, inflight>>

\* sendReminders: the active template is fetched.
FetchTemplate(t) ==
    LET r == run[t]
        rows == ActiveTemplates(SalonIDOf(r), r.eventType)
    IN  /\ r.pc = "template"
        /\ \/ /\ rows # {}
              /\ run' = [run EXCEPT ![t] = OnTemplateFound(r, Rows(rows)[1])]
              /\ UNCHANGED <<trace, faults>>
           \/ /\ rows = {}
              /\ run' = [run EXCEPT ![t] = OnTemplateMissing(r)]
              /\ trace' = trace \cup
                    {Event("skip", r, 0, TRUE, {})}
              /\ UNCHANGED faults
           \/ /\ faults < MaxFaults
              /\ faults' = faults + 1
              /\ run' = [run EXCEPT ![t] = OnTemplateMissing(r)]
              /\ trace' = trace \cup
                    {Event("skip", r, 0, FALSE, {})}
        /\ UNCHANGED <<now, users, salons, customers, templates, reminderLogs,
                       gateway, cycles, found, starts, inflight>>

\* sendReminders: the template's placeholder is replaced by the name of the
\* customer at hand.
RenderMessage(t) ==
    LET r == run[t]
    IN  /\ r.pc = "render"
        /\ run' = [run EXCEPT ![t] =
                      [r EXCEPT !.pc = "send",
                                !.message = Render(r.template, r.customers[r.j])]]
        /\ UNCHANGED <<now, users, salons, customers, templates, reminderLogs,
                       gateway, trace, cycles, faults, found, starts, inflight>>

\* sendReminders: the channel is chosen, the parameters are set and
\* CreateMessage is called; the call blocks until the gateway answers.
Send(t) ==
    LET r == run[t]
        sel == SelectChannel(r.customers[r.j])
    IN  /\ r.pc = "send"
        /\ run' = [run EXCEPT ![t] =
                      [r EXCEPT !.pc = "wait", !.channel = sel.channel,
                                !.to = sel.to]]
        /\ UNCHANGED <<now, users, salons, customers, templates, reminderLogs,
                       gateway, trace, cycles, faults, found, starts, inflight>>

\* CreateMessage returns, with the gateway's answer or with an error; gateway
\* holds the calls that have returned.
Respond(t) ==
    LET r == run[t]
        call(resp) == [run |-> r.id, salonID |-> SalonIDOf(r),
                       customerID |-> r.customers[r.j].id, type |-> r.eventType,
                       to |-> r.to, from |-> FromOf(r.channel),
                       body |-> r.message, ok |-> resp.ok, sid |-> resp.sid]
    IN  /\ r.pc = "wait"
        /\ \/ /\ gateway' = gateway (+) SetToBag({call(Accepted)})
              /\ run' = [run EXCEPT ![t] =
                            [Outcome(r, Accepted) EXCEPT !.pc = "log"]]
              /\ UNCHANGED faults
           \/ /\ faults < MaxFaults
              /\ faults' = faults + 1
              /\ \E resp \in {AcceptedWithoutSid, Refused} :
                    /\ gateway' = gateway (+) SetToBag({call(resp)})
                    /\ run' = [run EXCEPT ![t] =
                                  [Outcome(r, resp) EXCEPT !.pc = "log"]]
        /\ UNCHANGED <<now, users, salons, customers, templates, reminderLogs,
                       trace, cycles, found, starts, inflight>>

\* Faulty variant: with the ledger row, the customer's row is written too
\* (stamped with the cycle that reminded the customer).
LogAndStamp(t) ==
    LET r == run[t]
        customer == r.customers[r.j]
    IN  /\ r.pc = "log"
        /\ reminderLogs' = Record(reminderLogs, ReminderLog(r))
        /\ customers' = {IF c.id = customer.id
                         THEN [c EXCEPT !.updatedAt = r.id] ELSE c :
                            c \in customers}
        /\ run' = [run EXCEPT ![t] = NextCustomer(r)]
        /\ UNCHANGED <<now, users, salons, templates, gateway, trace, cycles,
                       faults, found, starts, inflight>>

\* sendReminders: the ledger row is inserted; an error is logged only.
Log(t) ==
    LET r == run[t]
    IN  /\ r.pc = "log"
        /\ \/ /\ reminderLogs' = Record(reminderLogs, ReminderLog(r))
              /\ UNCHANGED <<trace, faults>>
           \/ /\ faults < MaxFaults
              /\ faults' = faults + 1
              /\ trace' = trace \cup
                    {Event("logfail", r, r.customers[r.j].id, FALSE, {})}
              /\ UNCHANGED reminderLogs
        /\ run' = [run EXCEPT ![t] = NextCustomer(r)]
        /\ UNCHANGED <<now, users, salons, customers, templates, gateway,
                       cycles, found, starts, inflight>>

-----------------------------------------------------------------------------
(* The engine and the controllers over a store the earlier deployment       *)
(* (users that are their own salon: the token's salonId is the user's ID)   *)
(* left behind.                                                             *)

\* found before any probe.
NoProbe ==
    [probed |-> FALSE, salonID |-> 0,
     rows |-> [e \in {"birthday", "anniversary"} |-> {}]]

Today == [y |-> 2024, m |-> 6, d |-> 10]

\* A user row of the earlier deployment: the salon's notification
\* preferences are columns of it, with their defaults.
LegacyUser(id, email, phone) ==
    [id |-> id, salonID |-> id, email |-> email, phone |-> phone,
     role |-> "legacy", isActive |-> TRUE, deleted |-> FALSE,
     birthdayReminders |-> TRUE, anniversaryReminders |-> TRUE,
     whatsAppNotifications |-> FALSE, smsNotifications |-> FALSE]

\* The customers of the two salons: salon 2 has two whose birthdays are in
\* the window of Today; phone is the second one's.
LegacyCustomers(phone) ==
    {[id |-> 3, salonID |-> 1, name |-> <<"B", "o">>,
      phone |-> <<"+", "4", "4", "1">>,
      birthday |-> [m |-> 6, d |-> 13], anniversary |-> [m |-> 6, d |-> 12],
      isActive |-> TRUE, deleted |-> FALSE, createdAt |-> 0,
      updatedAt |-> 0, deletedAt |-> 0],
     [id |-> 4, salonID |-> 2, name |-> <<"C", "y">>,
      phone |-> <<"5", "5", "5">>,
      birthday |-> [m |-> 6, d |-> 17], anniversary |-> NullDate,
      isActive |-> TRUE, deleted |-> FALSE, createdAt |-> 0,
      updatedAt |-> 0, deletedAt |-> 0],
     [id |-> 8, salonID |-> 2, name |-> <<"D", "i">>,
      phone |-> phone,
      birthday |-> [m |-> 6, d |-> 15], anniversary |-> NullDate,
      isActive |-> TRUE, deleted |-> FALSE, createdAt |-> 0,
      updatedAt |-> 0, deletedAt |-> 0]}

\* The templates of the two salons: salon 1 has switched its anniversary
\* template off, salon 2 has none.
LegacyTemplates ==
    {[id |-> 5, salonID |-> 1, type |-> "birthday",
      message |-> DefaultMessage("birthday"),
      isActive |-> TRUE, deleted |-> FALSE],
     [id |-> 6, salonID |-> 1, type |-> "anniversary",
      message |-> DefaultMessage("anniversary"),
      isActive |-> FALSE, deleted |-> FALSE],
     [id |-> 7, salonID |-> 2, type |-> "birthday",
      message |-> DefaultMessage("birthday"),
      isActive |-> TRUE, deleted |-> FALSE]}

Init ==
    /\ now = Today
    /\ users = {LegacyUser(1, "one@old", "100"), LegacyUser(2, "two@old", "200")}
    /\ salons = {}
    /\ customers = LegacyCustomers(<<"+", "4", "4", "2">>)
    /\ templates = LegacyTemplates
    /\ reminderLogs = EmptyBag
    /\ gateway = EmptyBag
    /\ run = [t \in Triggers |-> Idle]
    /\ trace = {}
    /\ cycles = 0
    /\ faults = 0
    /\ found = NoProbe
    /\ starts = {}
    /\ inflight = {}

\* A day passes. A cycle takes seconds: midnight falls between cycles.
LastDay == [y |-> 2024, m |-> 6, d |-> 11]

Tick ==
    /\ now # LastDay
    /\ \A t \in Triggers : run[t].pc \in {"idle", "done"}
    /\ now' = AddDate(now, 1)
    /\ UNCHANGED <<users, salons, customers, templates, reminderLogs, gateway,
                   run, trace, cycles, faults, found, starts, inflight>>

\* The steps of a cycle that has started.
Engine(t) ==
    \/ Lookup(t)
    \/ FetchTemplate(t)
    \/ RenderMessage(t)
    \/ Send(t)
    \/ Respond(t)
    \/ Log(t)

\* The engine under both triggers, over the days.
Next ==
    \/ StartScheduler
    \/ \E authenticated \in BOOLEAN : TestReminder(authenticated)
    \/ \E t \in Triggers : Engine(t)
    \/ Tick

Spec == Init /\ [][Next]_vars

\* The deployed controllers and the cycle of StartScheduler.
NextTenancy ==
    \/ StartScheduler
    \/ Engine("scheduler")
    \/ \E input \in RegisterInputs : Register(input)
    \/ \E cur \in users, input \in EmployeeInputs : AddEmployee(cur, input)
    \/ \E cur \in users, employee \in users : DeleteEmployee(cur, employee)
    \/ \E cur \in users, input \in CustomerInputs : CreateCustomer(cur, input)

SpecTenancy == Init /\ [][NextTenancy]_vars

\* The customer controllers of the salons' staff and the cycle of
\* StartScheduler.
NextCustomers ==
    \/ StartScheduler
    \/ Engine("scheduler")
    \/ \E cur \in users, customer \in customers, input \in CustomerUpdates :
          UpdateCustomer(cur, customer, input)
    \/ \E cur \in users, customer \in customers : DeleteCustomer(cur, customer)

SpecCustomers == Init /\ [][NextCustomers]_vars

\* Registration and the template controllers, serving concurrent requests.
NextTemplates ==
    \/ \E input \in RegisterInputs : Register(input)
    \/ \E cur \in users, input \in TemplateInputs :
          CreateReminderTemplate(cur, input)
    \/ \E cur \in users, template \in templates, input \in TemplateUpdates :
          UpdateReminderTemplate(cur, template, input)
    \/ \E cur \in users, input \in SettingUpdates :
          UpdateReminderSetting(cur, input)
    \/ \E cur \in users, template \in templates :
          DeleteReminderTemplate(cur, template)
    \/ \E q \in inflight : Commit(q)

\* A store nobody has registered in yet.
InitTemplates ==
    /\ now = Today
    /\ users = {}
    /\ salons = {}
    /\ customers = {}
    /\ templates = {}
    /\ reminderLogs = EmptyBag
    /\ gateway = EmptyBag
    /\ run = [t \in Triggers |-> Idle]
    /\ trace = {}
    /\ cycles = 0
    /\ faults = 0
    /\ found = NoProbe
    /\ starts = {}
    /\ inflight = {}

SpecTemplates == InitTemplates /\ [][NextTemplates]_vars

-----------------------------------------------------------------------------
(* The one cycle StartScheduler runs, over stores that differ in the phone  *)
(* of one customer.                                                         *)

\* The phones the store may hold: CreateCustomer and UpdateCustomer accept a
\* phone only if ValidatePhone does.
Phones ==
    {p \in {<<"+", "4", "4", "2">>, <<"4", "4", "2">>, <<"+", "1", "5">>,
             <<"1", "5">>, <<"+", "4">>, <<"0", "4", "4">>, <<"4", "+", "4">>} :
        ValidatePhone(p)}

InitScheduler ==
    /\ now = Today
    /\ users = {LegacyUser(1, "one@old", "100"), LegacyUser(2, "two@old", "200")}
    /\ salons = {}
    /\ \E phone \in Phones : customers = LegacyCustomers(phone)
    /\ templates = LegacyTemplates
    /\ reminderLogs = EmptyBag
    /\ gateway = EmptyBag
    /\ run = [t \in Triggers |-> Idle]
    /\ trace = {}
    /\ cycles = 0
    /\ faults = 0
    /\ found = NoProbe
    /\ starts = {}
    /\ inflight = {}

NextScheduler ==
    \/ StartScheduler
    \/ Engine("scheduler")
    \/ Tick

SpecScheduler == InitScheduler /\ [][NextScheduler]_vars

\* Time passes, and a cycle that has started runs to its end.
SpecSchedulerFair == SpecScheduler /\ WF_vars(NextScheduler)

-----------------------------------------------------------------------------
(* The cycle of StartScheduler while the staff of a salon delete customers  *)
(* and templates: the store holds salon 2, its two customers and its        *)
(* template.                                                                *)

InitLedger ==
    /\ now = Today
    /\ users = {LegacyUser(2, "two@old", "200")}
    /\ salons = {}
    /\ customers = {c \in LegacyCustomers(<<"+", "4", "4", "2">>) : c.salonID = 2}
    /\ templates = {t \in LegacyTemplates : t.salonID = 2}
    /\ reminderLogs = EmptyBag
    /\ gateway = EmptyBag
    /\ run = [t \in Triggers |-> Idle]
    /\ trace = {}
    /\ cycles = 0
    /\ faults = 0
    /\ found = NoProbe
    /\ starts = {}
    /\ inflight = {}

NextLedger ==
    \/ StartScheduler
    \/ Engine("scheduler")
    \/ \E cur \in users, customer \in customers : DeleteCustomer(cur, customer)
    \/ \E cur \in users, template \in templates :
          DeleteReminderTemplate(cur, template)

SpecLedger == InitLedger /\ [][NextLedger]_vars

-----------------------------------------------------------------------------
(* The cycle of StartScheduler for one salon with one customer and one      *)
(* birthday template, over template messages and customer names put         *)
(* together from the placeholder, its parts and other text.                 *)

\* The pieces a message is put together from, and how many, at most.
MaxPieces == 3

Pieces == {Placeholder, <<"[">>, <<"CustomerName", "]">>, <<"x">>}

RECURSIVE Messages(_)
Messages(n) ==
    IF n = 0 THEN {<<>>}
    ELSE Messages(n - 1) \cup {m \o p : m \in Messages(n - 1), p \in Pieces}

\* Names: plain, one that is the placeholder, one that is a part of it.
Names == {<<"B", "o">>, Placeholder, <<"[">>}

InitRender ==
    /\ now = Today
    /\ users = {LegacyUser(1, "one@old", "100")}
    /\ salons = {}
    /\ \E name \in Names :
          customers =
              {[id |-> 3, salonID |-> 1, name |-> name,
                phone |-> <<"+", "4", "4", "1">>,
                birthday |-> [m |-> 6, d |-> 13], anniversary |-> NullDate,
                isActive |-> TRUE, deleted |-> FALSE, createdAt |-> 0,
                updatedAt |-> 0, deletedAt |-> 0]}
    /\ \E message \in Messages(MaxPieces) :
          templates =
              {[id |-> 5, salonID |-> 1, type |-> "birthday",
                message |-> message, isActive |-> TRUE, deleted |-> FALSE]}
    /\ reminderLogs = EmptyBag
    /\ gateway = EmptyBag
    /\ run = [t \in Triggers |-> Idle]
    /\ trace = {}
    /\ cycles = 0
    /\ faults = 0
    /\ found = NoProbe
    /\ starts = {}
    /\ inflight = {}

SpecRender == InitRender /\ [][NextScheduler]_vars

-----------------------------------------------------------------------------
(* Two cycles of one salon, one started by StartScheduler and one by GET    *)
(* /test-reminder, while the salon's owner changes the notification         *)
(* preferences. The salon has a customer with a "+" phone, a birthday and   *)
(* an anniversary, a customer with a plain phone and a birthday, and an     *)
(* active template of each type. Both cycles meet the same store and the    *)
(* same gateway: no query fails and every call is accepted.                 *)

InitNotifications ==
    /\ now = Today
    /\ users = {LegacyUser(1, "one@old", "100")}
    /\ salons = {}
    /\ customers =
          {[c EXCEPT !.salonID = 1] :
              c \in {d \in LegacyCustomers(<<"+", "4", "4", "2">>) :
                         d.id \in {3, 4}}}
    /\ templates =
          {[t EXCEPT !.isActive = TRUE] :
              t \in {d \in LegacyTemplates : d.salonID = 1}}
    /\ reminderLogs = EmptyBag
    /\ gateway = EmptyBag
    /\ run = [t \in Triggers |-> Idle]
    /\ trace = {}
    /\ cycles = 0
    /\ faults = 0
    /\ found = NoProbe
    /\ starts = {}
    /\ inflight = {}

\* A step on which nothing fails.
NoError == faults' = faults

NextNotifications ==
    \/ StartScheduler /\ NoError
    \/ \E authenticated \in BOOLEAN : TestReminder(authenticated) /\ NoError
    \/ \E t \in Triggers : Engine(t) /\ NoError
    \/ \E cur \in users, input \in NotificationInputs :
          UpdateNotifications(cur, input)

SpecNotifications == InitNotifications /\ [][NextNotifications]_vars

-----------------------------------------------------------------------------
(* getUpcomingCustomers on every date of two years, for both event types,   *)
(* over a table that holds one occasion date in six rows.                   *)

Years == {2023, 2024}

Dates == {t \in [y : Years, m : 1..12, d : 1..31] : t.d <= DaysIn(t.y, t.m)}

MonthDays == {o \in [m : 1..12, d : 1..31] : o.d <= DaysIn(2024, o.m)}

ProbeRow(id, salonID, isActive, birthday, anniversary) ==
    [id |-> id, salonID |-> salonID, name |-> <<"P">>, phone |-> <<"5", "5", "5">>,
     birthday |-> birthday, anniversary |-> anniversary,
     isActive |-> isActive, deleted |-> FALSE, createdAt |-> 0,
     updatedAt |-> 0, deletedAt |-> 0]

\* Salon 1: an active customer with both dates, an inactive one, one with
\* neither date, one with the birthday only, one with the anniversary only;
\* and an active customer of salon 2.
ProbeTable(occasion) ==
    {ProbeRow(1, 1, TRUE, occasion, occasion),
     ProbeRow(2, 1, FALSE, occasion, occasion),
     ProbeRow(3, 2, TRUE, occasion, occasion),
     ProbeRow(4, 1, TRUE, NullDate, NullDate),
     ProbeRow(5, 1, TRUE, occasion, NullDate),
     ProbeRow(6, 1, TRUE, NullDate, occasion)}

InitFinder ==
    /\ now \in Dates
    /\ users = {}
    /\ salons = {}
    /\ customers = {}
    /\ templates = {}
    /\ reminderLogs = EmptyBag
    /\ gateway = EmptyBag
    /\ run = [t \in Triggers |-> Idle]
    /\ trace = {}
    /\ cycles = 0
    /\ faults = 0
    /\ found = NoProbe
    /\ starts = {}
    /\ inflight = {}

Probe(occasion) ==
    /\ ~found.probed
    /\ customers' = ProbeTable(occasion)
    /\ found' = [probed |-> TRUE, salonID |-> 1,
                 rows |-> [e \in {"birthday", "anniversary"} |->
                             getUpcomingCustomers(customers', 1, e, now)]]
    /\ UNCHANGED <<now, users, salons, templates, reminderLogs, gateway, run,
                   trace, cycles, faults, starts, inflight>>

NextFinder == \E occasion \in MonthDays : Probe(occasion)

SpecFinder == InitFinder /\ [][NextFinder]_vars

-----------------------------------------------------------------------------
(* The Occasion Finder's claims, under SpecFinder.                          *)

MonthDayOf(t) == [m |-> t.m, d |-> t.d]

\* occasion is the month and day of one of the days t .. t+WindowDays.
InWindow(occasion, t) ==
    \E k \in 0..WindowDays : MonthDayOf(AddDate(t, k)) = occasion

\* The rows of tbl a lookup may return: the salon's active customers that
\* have the date.
Eligible(tbl, salonID, eventType) ==
    {c \in tbl : /\ c.salonID = salonID
                 /\ c.isActive
                 /\ OccasionOf(c, eventType) # NullDate}

\* C3: for every tenant, occasion type and current date, getUpcomingCustomers
\* returns exactly the tenant's active customers whose non-null occasion date
\* falls, by month and day, on one of the days today .. today+7; nobody else.
C3_FinderReturnsExactlyTheWindow ==
    found.probed =>
        \A e \in DOMAIN found.rows :
            found.rows[e] =
                {c \in Eligible(customers, found.salonID, e) :
                    InWindow(OccasionOf(c, e), now)}

\* C4: on Dec 30 the lookup returns the customers whose occasion is on Dec 30,
\* Dec 31 or Jan 1 .. Jan 6, and not one whose occasion is on Dec 29.
C4_YearBoundary ==
    (found.probed /\ now.m = 12 /\ now.d = 30) =>
        \A e \in DOMAIN found.rows :
            \A c \in Eligible(customers, found.salonID, e) :
                LET o == OccasionOf(c, e)
                IN  /\ (o.m = 12 /\ o.d \in {30, 31}) => c \in found.rows[e]
                    /\ (o.m = 1 /\ o.d \in 1..6) => c \in found.rows[e]
                    /\ (o.m = 12 /\ o.d = 29) => c \notin found.rows[e]

\* C5: on every date, a customer whose occasion is today's month and day is
\* returned, and so is one whose occasion is the month and day of today+7.
C5_BothEndsInclusive ==
    found.probed =>
        \A e \in DOMAIN found.rows :
            \A c \in Eligible(customers, found.salonID, e) :
                (\/ OccasionOf(c, e) = MonthDayOf(now)
                 \/ OccasionOf(c, e) = MonthDayOf(AddDate(now, WindowDays)))
                    => c \in found.rows[e]

-----------------------------------------------------------------------------
(* The engine's claims.                                                     *)

RECURSIVE SumCopies(_, _)
SumCopies(S, B) ==
    IF S = {} THEN 0
    ELSE LET e == CHOOSE x \in S : TRUE
         IN  CopiesIn(e, B) + SumCopies(S \ {e}, B)

\* The ledger rows cycle id wrote for a (tenant, customer, occasion type).
LogEntries(id, salonID, customerID, type) ==
    {e \in BagToSet(reminderLogs) :
        /\ e.run = id
        /\ e.salonID = salonID
        /\ e.customerID = customerID
        /\ e.type = type}

LogCount(id, salonID, customerID, type) ==
    SumCopies(LogEntries(id, salonID, customerID, type), reminderLogs)

\* The gateway calls of cycle id.
CallsOf(id) == {g \in BagToSet(gateway) : g.run = id}

\* The insert of the ledger row of call g failed.
LogWriteFailed(g) ==
    \E e \in trace :
        /\ e.kind = "logfail"
        /\ e.run = g.run
        /\ e.salonID = g.salonID
        /\ e.customerID = g.customerID
        /\ e.type = g.type

\* C1 as stated: when a cycle has ended, every gateway call it made, whether
\* it succeeded or failed, has exactly one ledger row for its (tenant,
\* customer, occasion type).
C1_EveryAttemptHasExactlyOneEntry ==
    \A t \in Triggers :
        run[t].pc = "done" =>
            \A g \in CallsOf(run[t].id) :
                LogCount(g.run, g.salonID, g.customerID, g.type) = 1

\* C1 amended: a gateway call never has more than one ledger row, and when
\* its cycle has ended it has exactly one row if the insert succeeded and none
\* if the insert failed (the failure is only logged).
C1_OneEntryUnlessTheInsertFails ==
    /\ \A g \in BagToSet(gateway) :
          LogCount(g.run, g.salonID, g.customerID, g.type) <= 1
    /\ \A t \in Triggers :
          run[t].pc = "done" =>
              \A g \in CallsOf(run[t].id) :
                  LogCount(g.run, g.salonID, g.customerID, g.type)
                      = IF LogWriteFailed(g) THEN 0 ELSE 1

\* A cycle has ended in which one call's insert failed and left no row,
\* and another call has its one row.
C1_Witness ==
    \E t \in Triggers :
        /\ run[t].pc = "done"
        /\ \E g, h \in CallsOf(run[t].id) :
              /\ LogWriteFailed(g)
              /\ LogCount(g.run, g.salonID, g.customerID, g.type) = 0
              /\ LogCount(h.run, h.salonID, h.customerID, h.type) = 1

\* C6: the ledger never holds two rows with status sent for the same tenant,
\* customer, occasion type and calendar year.
C6_AtMostOneSentPerYear ==
    \A e \in BagToSet(reminderLogs) :
        e.status = "sent" =>
            SumCopies({x \in BagToSet(reminderLogs) :
                          /\ x.status = "sent"
                          /\ x.salonID = e.salonID
                          /\ x.customerID = e.customerID
                          /\ x.type = e.type
                          /\ x.sentAt.y = e.sentAt.y}, reminderLogs) <= 1

\* C7: while one cycle is in progress, no second cycle is executing
\* sendReminders.
C7_CyclesNeverOverlap ==
    \A t1, t2 \in Triggers :
        t1 # t2 =>
            ~(/\ run[t1].pc \notin {"idle", "done"}
              /\ run[t2].pc \in {"template", "send", "wait", "log"})

\* The template of (row idx, type) of cycle id was missing or not fetched.
Skipped(id, idx, type) ==
    \E e \in trace :
        e.kind = "skip" /\ e.run = id /\ e.idx = idx /\ e.type = type

\* Every customer lookup l returned was handed to the gateway.
AllDispatched(l) ==
    \A cid \in l.rows :
        \E g \in CallsOf(l.run) :
            g.salonID = l.salonID /\ g.customerID = cid /\ g.type = l.type

\* C8: when a cycle has ended, whatever failed on the way, every salon row it
\* fetched has had both occasion types looked up, and every customer a lookup
\* returned for a salon with a template has been handed to the gateway.
C8_FailuresAreContained ==
    \A t \in Triggers :
        run[t].pc = "done" =>
            \A k \in 1..Len(run[t].salons) :
                \A type \in {"birthday", "anniversary"} :
                    \E l \in trace :
                        /\ l.kind = "lookup"
                        /\ l.run = run[t].id
                        /\ l.idx = k
                        /\ l.type = type
                        /\ l.salonID = run[t].salons[k].id
                        /\ (l.ok /\ ~Skipped(l.run, k, type)) => AllDispatched(l)

\* A cycle has ended whose lookup for its first salon failed and which has
\* handed a customer of its second salon to the gateway.
C8_Witness ==
    \E t \in Triggers :
        /\ run[t].pc = "done"
        /\ Len(run[t].salons) >= 2
        /\ \E l \in trace :
              l.kind = "lookup" /\ l.run = run[t].id /\ l.idx = 1 /\ ~l.ok
        /\ \E g \in CallsOf(run[t].id) : g.salonID = run[t].salons[2].id

\* C10: a (salon, occasion type) found without an active template gets no
\* gateway call and no ledger row in that cycle, however many customers the
\* lookup returned; and when the cycle has ended the other lookups of the
\* cycle have been dispatched all the same.
C10_NoTemplateNoDispatch ==
    \A e \in trace :
        (e.kind = "skip" /\ e.ok) =>
            /\ ~\E g \in CallsOf(e.run) :
                  g.salonID = e.salonID /\ g.type = e.type
            /\ ~\E x \in BagToSet(reminderLogs) :
                  x.run = e.run /\ x.salonID = e.salonID /\ x.type = e.type
            /\ \A t \in Triggers :
                  (run[t].pc = "done" /\ run[t].id = e.run) =>
                      \A l \in trace :
                          (/\ l.kind = "lookup"
                           /\ l.run = e.run
                           /\ l.ok
                           /\ ~Skipped(l.run, l.idx, l.type)) => AllDispatched(l)

\* A cycle has ended that found no active anniversary template for a salon
\* with a qualifying customer, and that sent the salon's birthday reminder.
C10_Witness ==
    \E t \in Triggers :
        /\ run[t].pc = "done"
        /\ \E e, l \in trace :
              /\ e.kind = "skip" /\ e.ok /\ e.run = run[t].id
              /\ l.kind = "lookup" /\ l.run = e.run /\ l.idx = e.idx
              /\ l.type = e.type /\ l.rows # {}
              /\ \E g \in CallsOf(e.run) :
                    g.salonID = e.salonID /\ g.type # e.type

\* The number of gateway calls cycle id made for a (tenant, customer,
\* occasion type).
CallCount(id, salonID, customerID, type) ==
    SumCopies({g \in CallsOf(id) : /\ g.salonID = salonID
                                    /\ g.customerID = customerID
                                    /\ g.type = type}, gateway)

\* The lookups of a cycle that returned the customer of call g.
LookupsOf(g) ==
    {l \in trace : /\ l.kind = "lookup"
                    /\ l.run = g.run
                    /\ l.salonID = g.salonID
                    /\ l.type = g.type
                    /\ g.customerID \in l.rows}

\* The cycle with this id has returned.
Returned(id) == \E t \in Triggers : run[t].id = id /\ run[t].pc = "done"

\* C11 as stated: when a cycle has returned, every gateway call of it that
\* ended in an error has one ledger row with status failed and a non-empty
\* error message, and every customer of the same list has been dispatched.
C11_FailedSendIsRecordedAndSkipped ==
    \A g \in BagToSet(gateway) :
        (~g.ok /\ Returned(g.run)) =>
            /\ LogCount(g.run, g.salonID, g.customerID, g.type) = 1
            /\ \A x \in LogEntries(g.run, g.salonID, g.customerID, g.type) :
                  x.status = "failed" /\ x.errorMessage # ""
            /\ \A l \in LookupsOf(g) : AllDispatched(l)

\* C11 amended: the row of a call that ended in an error has status failed
\* and a non-empty error message; when the cycle has returned the row is
\* there unless its insert failed, and every customer of the same list has
\* been dispatched.
C11_FailedSendIsRecordedUnlessTheInsertFails ==
    \A g \in BagToSet(gateway) :
        ~g.ok =>
            /\ \A x \in LogEntries(g.run, g.salonID, g.customerID, g.type) :
                  x.status = "failed" /\ x.errorMessage # ""
            /\ Returned(g.run) =>
                  /\ LogCount(g.run, g.salonID, g.customerID, g.type)
                        = IF LogWriteFailed(g) THEN 0 ELSE 1
                  /\ \A l \in LookupsOf(g) : AllDispatched(l)

\* A cycle has returned in which the send to the first customer of a list
\* of two failed and has its row, and the second customer was sent to.
C11_Witness ==
    \E g, h \in BagToSet(gateway) :
        /\ Returned(g.run)
        /\ ~g.ok
        /\ h.ok
        /\ h.run = g.run /\ h.salonID = g.salonID /\ h.type = g.type
        /\ g.customerID < h.customerID
        /\ \E x \in LogEntries(g.run, g.salonID, g.customerID, g.type) :
              x.status = "failed" /\ x.errorMessage # ""

\* The customer row a gateway call or a ledger row is about.
CustomerOf(customerID) == CHOOSE c \in customers : c.id = customerID

\* C12: a customer whose phone starts with "+" is written to on channel
\* whatsapp at "whatsapp:" followed by the phone; any other customer on
\* channel sms at the phone as stored.
C12_ChannelFollowsThePhone ==
    /\ \A g \in BagToSet(gateway) :
          LET phone == CustomerOf(g.customerID).phone
          IN  g.to = IF HasPrefix(phone, <<"+">>) THEN <<"whatsapp:">> \o phone
                     ELSE phone
    /\ \A x \in BagToSet(reminderLogs) :
          LET phone == CustomerOf(x.customerID).phone
          IN  x.channel = IF HasPrefix(phone, <<"+">>) THEN "whatsapp" ELSE "sms"

\* The ledger holds a whatsapp row and an sms row, of two customers of one
\* salon, one with and one without the "+".
C12_Witness ==
    \E x, y \in BagToSet(reminderLogs) :
        /\ x.salonID = y.salonID
        /\ x.channel = "whatsapp" /\ y.channel = "sms"
        /\ HasPrefix(CustomerOf(x.customerID).phone, <<"+">>)
        /\ ~HasPrefix(CustomerOf(y.customerID).phone, <<"+">>)
        /\ \E g \in BagToSet(gateway) :
              g.customerID = y.customerID /\ g.to = CustomerOf(y.customerID).phone

\* C13: every cycle started over HTTP was started by an authenticated
\* request.
C13_OnlyAuthenticatedTrigger ==
    \A s \in starts : s.trigger = "request" => s.caller = "authenticated"

\* C14: once StartScheduler has been called, every day that begins sees a
\* cycle of the scheduler.
C14_CycleEveryDay ==
    \A d \in {Today, LastDay} :
        ((\E s \in starts : s.trigger = "scheduler") /\ now = d)
            ~> (\E s \in starts : s.trigger = "scheduler" /\ s.day = d)

\* C17: a salon whose birthday lookup failed gets no anniversary lookup,
\* no template query and no gateway call in that cycle.
C17_LookupFailureAbortsTheTenant ==
    \A l \in trace :
        (l.kind = "lookup" /\ ~l.ok /\ l.type = "birthday") =>
            /\ ~\E m \in trace :
                  m.run = l.run /\ m.idx = l.idx /\ m.type = "anniversary"
            /\ ~\E g \in CallsOf(l.run) :
                  g.salonID = l.salonID /\ g.type = "anniversary"

\* C18: a customer whose ledger insert failed has had one gateway call and
\* has no ledger row in that cycle, and when the cycle has returned every
\* customer of the same list has been dispatched.
C18_LogFailureIsNotRetried ==
    \A e \in trace :
        e.kind = "logfail" =>
            /\ CallCount(e.run, e.salonID, e.customerID, e.type) = 1
            /\ LogCount(e.run, e.salonID, e.customerID, e.type) = 0
            /\ Returned(e.run) =>
                  \A l \in trace :
                      (/\ l.kind = "lookup"
                       /\ l.run = e.run
                       /\ l.idx = e.idx
                       /\ l.type = e.type) => AllDispatched(l)

\* A cycle has returned in which the insert for the first customer of a list
\* failed and the second customer has been sent to and has its row.
C18_Witness ==
    \E e \in trace :
        /\ e.kind = "logfail"
        /\ Returned(e.run)
        /\ \E x \in BagToSet(reminderLogs) :
              /\ x.run = e.run /\ x.salonID = e.salonID /\ x.type = e.type
              /\ x.customerID > e.customerID

\* C19: in one cycle the gateway is called at most once for a (tenant,
\* customer, occasion type), and no list of customers holds a customer twice.
C19_OneAttemptPerCustomer ==
    /\ \A g \in BagToSet(gateway) :
          CallCount(g.run, g.salonID, g.customerID, g.type) <= 1
    /\ \A t \in Triggers :
          \A j, k \in 1..Len(run[t].customers) :
              run[t].customers[j].id = run[t].customers[k].id => j = k

\* A cycle has returned in which a send failed, after a list of two
\* customers was dispatched.
C19_Witness ==
    \E g \in BagToSet(gateway) :
        /\ ~g.ok
        /\ Returned(g.run)
        /\ CallCount(g.run, g.salonID, g.customerID, g.type) = 1
        /\ \E l \in LookupsOf(g) : Cardinality(l.rows) = 2 /\ AllDispatched(l)

\* The processing units cycles have started: one per customer a lookup
\* returned.
UnitsOf(l) ==
    {[run |-> l.run, idx |-> l.idx, salonID |-> l.salonID, type |-> l.type,
      customerID |-> cid] : cid \in l.rows}

Units == UNION {UnitsOf(l) : l \in {e \in trace : e.kind = "lookup" /\ e.ok}}

\* The cycle of unit u is at u, in the loop over the customers.
AtUnit(t, u) ==
    /\ run[t].id = u.run
    /\ run[t].pc \in {"render", "send", "wait", "log"}
    /\ run[t].i = u.idx
    /\ run[t].eventType = u.type
    /\ run[t].customers[run[t].j].id = u.customerID

\* The state of a unit: read off the position of its cycle while the cycle
\* is at the unit, and off what the cycle left behind otherwise.
UnitState(u) ==
    IF \E t \in Triggers : AtUnit(t, u)
    THEN LET t == CHOOSE t \in Triggers : AtUnit(t, u)
         IN  IF run[t].pc = "render" THEN "PENDING"
             ELSE IF run[t].pc = "send" THEN "RENDERED"
             ELSE "DISPATCHED"
    ELSE IF Skipped(u.run, u.idx, u.type) THEN "SKIPPED"
    ELSE IF LogCount(u.run, u.salonID, u.customerID, u.type) > 0 THEN "LOGGED"
    ELSE IF CallCount(u.run, u.salonID, u.customerID, u.type) > 0
         THEN "DISPATCHED"
    ELSE "PENDING"

UnitSteps ==
    {<<"PENDING", "SKIPPED">>, <<"PENDING", "RENDERED">>,
     <<"RENDERED", "DISPATCHED">>, <<"DISPATCHED", "LOGGED">>}

\* A unit moves along PENDING -> SKIPPED or PENDING -> RENDERED ->
\* DISPATCHED -> LOGGED, one step at a time, and not out of SKIPPED or LOGGED.
UnitsFollowTheOrder ==
    \A u \in Units :
        \/ UnitState(u)' = UnitState(u)
        \/ <<UnitState(u), UnitState(u)'>> \in UnitSteps

\* The insert of the ledger row of unit u failed.
UnitLogFailed(u) ==
    \E e \in trace :
        /\ e.kind = "logfail"
        /\ e.run = u.run
        /\ e.idx = u.idx
        /\ e.type = u.type
        /\ e.customerID = u.customerID

\* C20 as stated: the units move in the order of the state machine, and when
\* a cycle has returned every unit of it is SKIPPED or LOGGED.
C20_UnitsEndSkippedOrLogged ==
    /\ [][UnitsFollowTheOrder]_vars
    /\ [](\A u \in Units :
              Returned(u.run) => UnitState(u) \in {"SKIPPED", "LOGGED"})

\* C20 amended: the units move in the order of the state machine and never
\* out of SKIPPED or LOGGED; when a cycle has returned every unit of it is
\* SKIPPED or LOGGED, but for the units whose ledger insert failed, which
\* stay DISPATCHED.
C20_UnitsEndSkippedLoggedOrUnrecorded ==
    /\ [][UnitsFollowTheOrder]_vars
    /\ [](\A u \in Units :
              Returned(u.run) =>
                  UnitState(u) = IF Skipped(u.run, u.idx, u.type) THEN "SKIPPED"
                                 ELSE IF UnitLogFailed(u) THEN "DISPATCHED"
                                 ELSE "LOGGED")

\* A cycle has returned with a unit SKIPPED, a unit LOGGED and a unit left
\* DISPATCHED by a failed insert.
C20_Witness ==
    \E u, v, w \in Units :
        /\ Returned(u.run) /\ v.run = u.run /\ w.run = u.run
        /\ UnitState(u) = "SKIPPED"
        /\ UnitState(v) = "LOGGED"
        /\ UnitState(w) = "DISPATCHED" /\ UnitLogFailed(w)

-----------------------------------------------------------------------------
(* The tenancy claims, under SpecTenancy.                                   *)

\* C2: when a cycle during which nothing failed has ended, a customer created
\* before it, of a salon made by Register that has an active birthday
\* template, active, with the birthday 3 days from today and a phone that
\* starts with "+", has exactly one ledger row of that cycle, with channel
\* whatsapp and status sent.
C2_RegisteredTenantIsReminded ==
    \A t \in Triggers :
        (run[t].pc = "done" /\ run[t].salons # <<>> /\ faults = 0) =>
            \A s \in salons :
                \A c \in customers :
                    (/\ c.salonID = s.id
                     /\ c.isActive
                     /\ ~c.deleted
                     /\ c.createdAt < run[t].id
                     /\ HasPrefix(c.phone, <<"+">>)
                     /\ c.birthday = MonthDayOf(AddDate(now, 3))
                     /\ ActiveTemplates(s.id, "birthday") # {})
                    => LET rows == {x \in BagToSet(reminderLogs) :
                                       x.run = run[t].id /\ x.customerID = c.id}
                       IN  /\ SumCopies(rows, reminderLogs) = 1
                           /\ \A x \in rows : /\ x.channel = "whatsapp"
                                              /\ x.status = "sent"

\* The salon_id values the rows of a fetched salons list belong to.
TenantKeys(r) == {r.salons[k].salonID : k \in 1..Len(r.salons)}

\* The calls of ProcessSalonReminders cycle id made: one per birthday lookup.
Processed(id) ==
    {l \in trace : l.kind = "lookup" /\ l.type = "birthday" /\ l.run = id}

\* C9: when a cycle has ended, each tenant with an active user has been
\* processed exactly once, under its salon_id, and nothing else has.
C9_EachTenantOnceUnderItsSalonID ==
    \A t \in Triggers :
        run[t].pc = "done" =>
            /\ \A key \in TenantKeys(run[t]) :
                  Cardinality({l \in Processed(run[t].id) : l.salonID = key}) = 1
            /\ \A l \in Processed(run[t].id) : l.salonID \in TenantKeys(run[t])

-----------------------------------------------------------------------------
(* The customer claims, under SpecCustomers.                                *)

\* Customer c was deleted, or marked inactive, before cycle id started and
\* has stayed so.
RemovedBefore(c, id) ==
    \/ c.deleted /\ c.deletedAt < id
    \/ ~c.isActive /\ c.updatedAt < id

\* C15: a customer deleted or marked inactive before a cycle started is not
\* returned by a lookup of that cycle, gets no gateway call and no ledger row
\* in it.
C15_RemovedCustomersAreNotReminded ==
    \A t \in Triggers :
        \A c \in customers :
            (run[t].pc # "idle" /\ RemovedBefore(c, run[t].id)) =>
                /\ ~\E l \in trace :
                      l.kind = "lookup" /\ l.run = run[t].id /\ c.id \in l.rows
                /\ ~\E g \in CallsOf(run[t].id) : g.customerID = c.id
                /\ ~\E x \in BagToSet(reminderLogs) :
                      x.run = run[t].id /\ x.customerID = c.id

-----------------------------------------------------------------------------
(* The template claims, under SpecTemplates.                                *)

\* C16: a salon never has two active, non-deleted templates of one occasion
\* type.
C16_OneActiveTemplatePerType ==
    \A t \in templates :
        Cardinality(ActiveTemplates(t.salonID, t.type)) <= 1

-----------------------------------------------------------------------------
(* The ledger's claims.                                                     *)

\* C21: the ledger is append-only: no step of the engine or of a controller
\* removes or changes a ledger row; every row that was there is still there,
\* as many times, and the number of rows never decreases.
C21_LedgerIsAppendOnly ==
    [][/\ \A e \in BagToSet(reminderLogs) :
             CopiesIn(e, reminderLogs') >= CopiesIn(e, reminderLogs)
       /\ BagCardinality(reminderLogs') >= BagCardinality(reminderLogs)]_vars

\* The ledger holds two rows, and the customer and the template of one of
\* them have been deleted since.
C21_Witness ==
    /\ BagCardinality(reminderLogs) >= 2
    /\ \E x \in BagToSet(reminderLogs) :
          /\ \E c \in customers : c.id = x.customerID /\ c.deleted
          /\ \E t \in templates : t.id = x.templateID /\ t.deleted

\* A step of a cycle: the locals of a SendDailyReminders call change.
CycleStep == run' # run

\* C22: a step of a cycle leaves the users, the salons, the customers and
\* the templates as they are and adds at most one row to the ledger; the
\* ledger never holds more than one row of a cycle per processed unit, nor a
\* row that is not of a unit.
C22_CycleOnlyAppendsToTheLedger ==
    /\ [][CycleStep =>
             /\ users' = users
             /\ salons' = salons
             /\ customers' = customers
             /\ templates' = templates
             /\ BagCardinality(reminderLogs')
                   <= BagCardinality(reminderLogs) + 1]_vars
    /\ [](/\ \A u \in Units :
                 LogCount(u.run, u.salonID, u.customerID, u.type) <= 1
           /\ \A x \in BagToSet(reminderLogs) :
                 \E v \in Units :
                     /\ v.run = x.run /\ v.salonID = x.salonID
                     /\ v.customerID = x.customerID /\ v.type = x.type)

\* A cycle has returned that wrote one row for each of its two units, while
\* a customer was deleted.
C22_Witness ==
    /\ Returned(1)
    /\ Cardinality(Units) = 2
    /\ BagCardinality(reminderLogs) = 2
    /\ \A x \in BagToSet(reminderLogs) :
          \E u \in Units : u.customerID = x.customerID /\ u.type = x.type
    /\ \E c \in customers : c.deleted

-----------------------------------------------------------------------------
(* The renderer's claim, under SpecRender.                                  *)

\* Where the placeholder occurs in s.
Occurrences(s) ==
    {i \in 1..(Len(s) - Len(Placeholder) + 1) :
        SubSeq(s, i, i + Len(Placeholder) - 1) = Placeholder}

\* s with the text at the positions occ, from the last to the first, replaced
\* by name, and nothing else changed.
RECURSIVE Substituted(_, _, _)
Substituted(s, occ, name) ==
    IF occ = {} THEN s
    ELSE LET last == CHOOSE i \in occ : \A k \in occ : k <= i
         IN  Substituted(SubSeq(s, 1, last - 1), occ \ {last}, name)
                 \o name \o SubSeq(s, last + Len(Placeholder), Len(s))

\* The template row with this ID.
TemplateOf(templateID) == CHOOSE t \in templates : t.id = templateID

\* C23: the message of a cycle at a customer, the body of every gateway call
\* and the message of every ledger row is the template's message with every
\* occurrence of [CustomerName] replaced by the customer's name and the rest
\* as it was; and a cycle that is to render a customer can do so, whatever
\* the customer's row holds.
C23_MessageIsTheTemplateWithTheName ==
    /\ \A t \in Triggers :
          /\ run[t].pc \in {"send", "wait", "log"} =>
                run[t].message =
                    Substituted(run[t].template.message,
                                Occurrences(run[t].template.message),
                                run[t].customers[run[t].j].name)
          /\ run[t].pc = "render" => ENABLED RenderMessage(t)
    /\ \A x \in BagToSet(reminderLogs) :
          LET message == TemplateOf(x.templateID).message
          IN  /\ x.message = Substituted(message, Occurrences(message),
                                         CustomerOf(x.customerID).name)
              /\ \A g \in BagToSet(gateway) :
                    (g.run = x.run /\ g.customerID = x.customerID
                        /\ g.type = x.type) => g.body = x.message

\* A customer without an anniversary has been sent a message whose template
\* holds the placeholder twice and other text, with the name in both places.
C23_Witness ==
    \E x \in BagToSet(reminderLogs) :
        LET message == TemplateOf(x.templateID).message
            customer == CustomerOf(x.customerID)
        IN  /\ Cardinality(Occurrences(message)) = 2
            /\ Len(message) > 2 * Len(Placeholder)
            /\ customer.anniversary = NullDate
            /\ customer.name = <<"B", "o">>
            /\ Len(x.message) = Len(message) - 2
            /\ \E g \in BagToSet(gateway) : g.body = x.message

-----------------------------------------------------------------------------
(* The claims about what the ledger says of a gateway call.                 *)

\* The ledger rows of gateway call g.
EntriesOf(g) == LogEntries(g.run, g.salonID, g.customerID, g.type)

InFlight(t, salonID) == run[t].pc = "wait" /\ SalonIDOf(run[t]) = salonID

\* C26: at any moment at most one gateway call of a tenant is in flight.
C26_OneCallInFlightPerTenant ==
    \A t1, t2 \in Triggers :
        \A u \in users :
            (InFlight(t1, u.id) /\ InFlight(t2, u.id)) => t1 = t2

\* The gateway calls ledger row x was written for.
AttemptsOf(x) ==
    {g \in CallsOf(x.run) : /\ g.salonID = x.salonID
                             /\ g.customerID = x.customerID
                             /\ g.type = x.type}

\* The channel a gateway call went out on, by its sender and its destination.
ChannelOf(g) ==
    IF g.from = FromOf("whatsapp") /\ HasPrefix(g.to, <<"whatsapp:">>)
    THEN "whatsapp" ELSE "sms"

\* C27: every ledger row was written for one gateway call; its message is
\* the body of the call, its channel the channel of the call, its status is
\* sent if the call returned no error and failed if it returned one, and its
\* error message is empty exactly when its status is sent.
C27_EntryDescribesItsAttempt ==
    \A x \in BagToSet(reminderLogs) :
        /\ Cardinality(AttemptsOf(x)) = 1
        /\ \A g \in AttemptsOf(x) :
              /\ x.message = g.body
              /\ x.channel = ChannelOf(g)
              /\ g.from = FromOf(x.channel)
              /\ x.status = IF g.ok THEN "sent" ELSE "failed"
        /\ (x.errorMessage = "") <=> (x.status = "sent")

\* The ledger holds a sent row of a whatsapp call and a failed row of an sms
\* call, each with the body of its call.
C27_Witness ==
    \E x, y \in BagToSet(reminderLogs) :
        /\ x.status = "sent" /\ x.channel = "whatsapp" /\ x.errorMessage = ""
        /\ y.status = "failed" /\ y.channel = "sms" /\ y.errorMessage # ""
        /\ \E g \in AttemptsOf(x) : g.ok /\ g.body = x.message
        /\ \E g \in AttemptsOf(y) : ~g.ok /\ g.body = y.message

\* C28: in every ledger row the customer and the template are rows of the
\* salon in the row's salonID and the template is of the row's type; and a
\* cycle at a customer holds a template of the customer's salon.
C28_RowsStayInsideTheirTenant ==
    /\ \A x \in BagToSet(reminderLogs) :
          /\ CustomerOf(x.customerID).salonID = x.salonID
          /\ TemplateOf(x.templateID).salonID = x.salonID
          /\ TemplateOf(x.templateID).type = x.type
    /\ \A t \in Triggers :
          run[t].pc \in {"render", "send", "wait", "log"} =>
              /\ run[t].template.salonID = run[t].customers[run[t].j].salonID
              /\ run[t].template.salonID = SalonIDOf(run[t])
              /\ run[t].template.type = run[t].eventType

\* The ledger holds rows of two salons, each with a customer and a template
\* of its salon.
C28_Witness ==
    \E x, y \in BagToSet(reminderLogs) :
        /\ x.salonID # y.salonID
        /\ x.templateID # y.templateID
        /\ CustomerOf(x.customerID).salonID = x.salonID
        /\ CustomerOf(y.customerID).salonID = y.salonID
        /\ TemplateOf(y.templateID).salonID = y.salonID

\* C29: the ledger never holds more rows than gateway calls have returned,
\* in all and for each (cycle, tenant, customer, occasion type); and a cycle
\* whose call for a customer has not returned has no row for that customer.
C29_RowsFollowReturnedCalls ==
    /\ BagCardinality(reminderLogs) <= BagCardinality(gateway)
    /\ \A x \in BagToSet(reminderLogs) :
          LogCount(x.run, x.salonID, x.customerID, x.type)
              <= CallCount(x.run, x.salonID, x.customerID, x.type)
    /\ \A t \in Triggers :
          run[t].pc \in {"render", "send", "wait"} =>
              LogCount(run[t].id, SalonIDOf(run[t]),
                       run[t].customers[run[t].j].id, run[t].eventType) = 0

\* A cycle is inside CreateMessage for the second customer of a list: the
\* call of the first has returned and has its row, the second has none.
C29_Witness ==
    \E t \in Triggers :
        /\ run[t].pc = "wait"
        /\ run[t].j = 2
        /\ LogCount(run[t].id, SalonIDOf(run[t]), run[t].customers[1].id,
                    run[t].eventType) = 1
        /\ CallCount(run[t].id, SalonIDOf(run[t]), run[t].customers[1].id,
                     run[t].eventType) = 1
        /\ CallCount(run[t].id, SalonIDOf(run[t]), run[t].customers[2].id,
                     run[t].eventType) = 0

-----------------------------------------------------------------------------
(* The notification preferences' claim, under SpecNotifications.            *)

\* The notification preferences a cycle found in the users row at hand.
Preferences(u) ==
    <<u.birthdayReminders, u.anniversaryReminders, u.whatsAppNotifications,
      u.smsNotifications>>

\* The gateway calls and the ledger rows of cycle id, without the cycle.
CallsMade(id) == {[g EXCEPT !.run = 0] : g \in CallsOf(id)}
RowsWritten(id) ==
    {[x EXCEPT !.run = 0] : x \in {y \in BagToSet(reminderLogs) : y.run = id}}

\* C30: two cycles that have returned, on one day, over the same customers
\* and templates and with the same answers of the store and the gateway,
\* have made the same gateway calls and written the same ledger rows,
\* whatever the salon's notification preferences were when each started.
C30_PreferencesDoNotChangeTheRun ==
    \A t1, t2 \in Triggers :
        (run[t1].pc = "done" /\ run[t2].pc = "done") =>
            /\ CallsMade(run[t1].id) = CallsMade(run[t2].id)
            /\ RowsWritten(run[t1].id) = RowsWritten(run[t2].id)

\* Two cycles have returned: one found every preference as the other did
\* not, and both sent on both channels and for both types.
C30_Witness ==
    \E t1, t2 \in Triggers :
        /\ run[t1].pc = "done" /\ run[t2].pc = "done"
        /\ \A k \in 1..4 :
              Preferences(run[t1].salons[1])[k]
                  # Preferences(run[t2].salons[1])[k]
        /\ \E x, y \in RowsWritten(run[t2].id) :
              /\ x.channel = "whatsapp" /\ y.channel = "sms"
              /\ x.type = "anniversary" /\ y.type = "birthday"
        /\ Cardinality(CallsMade(run[t1].id)) = 3

====
